---- MODULE Spec2Model ----
(***************************************************************************)
(* Model of the accountbot decision engine (src/engine.py): the price      *)
(* knowledge base, the anomaly detector, the in-memory correction dialog   *)
(* store, the transaction recorder, the budget tracker, the order prompt   *)
(* and the dispatch order of process_command.                              *)
(*                                                                         *)
(* Time is counted in whole seconds, the unit of int(time.time()).         *)
(* Amounts and prices are integers (the code uses floats).                 *)
(* A message text is modelled by what process_command parses out of it.    *)
(* The sheets are sequences of rows; a failing sheet call is modelled for   *)
(* the append of the transaction row (the parameter ok of MsgRecord) and   *)
(* for the append to the archive of deleted rows (archiveOk).              *)
(* No trained name is a number, so a bare numeric text never matches the    *)
(* quick-record suggestion.                                                 *)
(***************************************************************************)
EXTENDS Integers, Sequences, FiniteSets, TLC

\* ------------------------------------------------------------------------
\* Bounds of the model
\* ------------------------------------------------------------------------
\* The number of transactions recorded in one run, under Spec and under
\* SpecPair.
MaxTx == 1
MaxPairTx == 2

\* The number of recurring templates of one run, and of the transactions
\* their postings record
MaxTemplates == 2
MaxPosted == 3

\* Names trained in the runs on the intent rules
MaxTrained == 2

\* ------------------------------------------------------------------------
\* Program constants
\* ------------------------------------------------------------------------
CorrectionTTL == 300
OrderTTL == 600
RealismLimit == 10000000
DefaultAlertAt == 80
DaySeconds == 86400

\* ------------------------------------------------------------------------
\* Input domains
\* ------------------------------------------------------------------------
Users == {"ama", "kofi"}

\* The users who send messages
Actors == {"ama"}

Names == {"paper", "#office"}

Units == {""}

TrainVals == {60, 80}

\* The names, prices and units "+train" and "+forget" are given where the
\* price table itself is examined: a second spelling of a name, a price above
\* the realism limit, a unit
KBNames == Names \cup {"Paper"}

KBVals == TrainVals \cup {RealismLimit + 1}

KBUnits == {"", "ream"}

Amounts == {50, 200}

\* The amounts a range is evaluated at: outside, on and between the bounds of
\* every range a run can hold
EvalAmounts == {49, 50, 60, 70, 80, 200, 201}

BudgetAmounts == {100}

\* The spellings of the budget key, and the amounts of a transaction with a
\* negative one (float() parses "-20")
BudgetKeys == {"#office", "#Office"}

SignedAmounts == {50, -20}

\* The amounts that take a budget of 100 with the alert at 80 percent below,
\* onto and over its threshold
AlertAmounts == {30, 50, 200}

TransTypes == {"sale", "expense", "income"}

\* The instants at which the model lets a message arrive: a first second, the
\* next one, and the same two seconds one correction TTL later.
TimePoints == {0, 1, CorrectionTTL, CorrectionTTL + 1}

\* The random parts generate_transaction_id draws from
IdPool == {1}

\* The frequencies of a template, and the days a run passes through: 31
\* March, 1, 6, 7, 27, 28 and 30 April, 1 May, and 31 March a year later
Freqs == {"daily", "weekly", "monthly"}

DayPoints == {89, 90, 95, 96, 116, 117, 119, 120, 454}

\* A word of a message: a number float() parses, or another word
Num(v) == [num |-> TRUE, v |-> v, s |-> ""]

Word(w) == [num |-> FALSE, v |-> 0, s |-> w]

\* The words after "+train": none, a name alone, a name and one price, a
\* name and two prices, the same with a unit, and a name with no price
TrainTexts ==
    { <<>>,
      <<Word("paper")>>,
      <<Word("paper"), Num(60)>>,
      <<Word("paper"), Num(60), Num(80)>>,
      <<Word("paper"), Num(60), Num(80), Word("ream")>>,
      <<Word("paper"), Word("per"), Word("ream")>> }

\* Texts that are keywords of the command chain, and one that is none
IntentTexts == {"paper", "balance", "month", "categories", "list", "delete", "help"}

\* Amounts of recordings whose prices are looked at later: float() accepts 0
ZeroAmounts == {0, 50, 60}

\* The items asked about
HistoryItems == {"#office", "#Office", "paper"}

\* The random parts of two transaction ids that may or may not be equal
IdDraws == {1, 2}

\* str.lower() on the names of the model
Lower(n) ==
    CASE n = "Paper" -> "paper"
      [] n = "#Office" -> "#office"
      [] OTHER -> n

\* str.startswith('#')
IsCategoryName(n) == n = "#office"

\* A description is modelled by what record_transaction extracts from it:
\* the lower-cased item names occurring in the hashtag-stripped text and the
\* first hashtag ("" when there is none), written with its '#'.
Descriptions ==
    { [items |-> {}, cat |-> ""],
      [items |-> {"paper"}, cat |-> "#office"] }

\* A bare numeric text is modelled by its comma-separated parts: the value of
\* a part that str.isdigit() accepts, or -1 for a part it rejects ("1 4", "").
BareTexts == { <<4>>, <<5>>, <<7>>, <<-1>> }

Min2(a, b) == IF a < b THEN a ELSE b

Max2(a, b) == IF a > b THEN a ELSE b

\* ------------------------------------------------------------------------
\* Python dict with insertion order, as a sequence of entries with a key
\* ------------------------------------------------------------------------
HasKey(d, k) == \E i \in 1..Len(d) : d[i].key = k

IndexOf(d, k) == CHOOSE i \in 1..Len(d) : d[i].key = k

Get(d, k) == d[IndexOf(d, k)]

\* d[k] = e : an existing key keeps its position
Put(d, e) ==
    IF HasKey(d, e.key)
    THEN [i \in 1..Len(d) |-> IF d[i].key = e.key THEN e ELSE d[i]]
    ELSE Append(d, e)

DelKey(d, k) == SelectSeq(d, LAMBDA e : e.key # k)

\* ------------------------------------------------------------------------
\* Identifiers
\* ------------------------------------------------------------------------
Prefix(type) ==
    CASE type = "sale" -> "SAL"
      [] type = "expense" -> "EXP"
      [] type = "income" -> "INC"
      [] OTHER -> "ORD"

\* generate_transaction_id: prefix plus a random part; nothing checks that
\* the random part is new.
TransactionId(type, n) == [k |-> "tx", a |-> Prefix(type), n |-> n]

\* state_id = f"{user_id}_{int(time.time())}"
StateId(user, t) == [k |-> "req", a |-> user, n |-> t]

NoKey == [k |-> "none", a |-> "", n |-> 0]

\* ------------------------------------------------------------------------
\* Price knowledge base: the PriceRanges sheet, a sequence of rows
\* ------------------------------------------------------------------------
PriceRow(item, lo, hi, unit) == [item |-> item, min |-> lo, max |-> hi, unit |-> unit]

\* The rows of a name compared as it is spelled
MatchingRowsExact(table, item) ==
    {i \in 1..Len(table) : table[i].item = item}

\* The rows whose name equals the name in lower case (row[0].strip().lower()
\* == item_lower)
MatchingRows(table, item) ==
    {i \in 1..Len(table) : Lower(table[i].item) = Lower(item)}

FirstMatch(table, item) ==
    CHOOSE i \in MatchingRows(table, item) :
        \A j \in MatchingRows(table, item) : i <= j

\* The training that adds a row whether or not the name has one
train_price_append(table, item, lo, hi, unit) ==
    Append(table, PriceRow(item, lo, hi, unit))

\* train_price: the first row of the name, compared in lower case, is
\* overwritten whole; a name without a row gets a new last row.
train_price(table, item, lo, hi, unit) ==
    IF MatchingRows(table, item) # {}
    THEN [table EXCEPT ![FirstMatch(table, item)] = PriceRow(item, lo, hi, unit)]
    ELSE Append(table, PriceRow(item, lo, hi, unit))

forget_price(table, item) ==
    SelectSeq(table, LAMBDA r : Lower(r.item) # Lower(item))

NoCheck == [status |-> "no-data", range |-> PriceRow("", 0, 0, ""), difference |-> 0]

\* The evaluation that counts an amount on a bound as outside the range
check_price_exclusive(table, item, amount) ==
    IF MatchingRows(table, item) = {}
    THEN NoCheck
    ELSE LET best == table[FirstMatch(table, item)] IN
         IF amount <= best.min
         THEN [status |-> "below", range |-> best, difference |-> best.min - amount]
         ELSE IF amount >= best.max
         THEN [status |-> "above", range |-> best, difference |-> amount - best.max]
         ELSE [status |-> "within", range |-> best, difference |-> 0]

\* check_price: every row carries the seed confidence, so max() returns the
\* first matching row.
check_price(table, item, amount) ==
    IF MatchingRows(table, item) = {}
    THEN NoCheck
    ELSE LET best == table[FirstMatch(table, item)] IN
         IF amount < best.min
         THEN [status |-> "below", range |-> best, difference |-> best.min - amount]
         ELSE IF amount > best.max
         THEN [status |-> "above", range |-> best, difference |-> amount - best.max]
         ELSE [status |-> "within", range |-> best, difference |-> 0]

\* auto_detect_items_in_description: the rows whose lower-cased name occurs in
\* the description, in sheet order.
auto_detect_items_in_description(table, desc) ==
    SelectSeq(table, LAMBDA r : Lower(r.item) \in desc.items)

\* ------------------------------------------------------------------------
\* State
\* ------------------------------------------------------------------------
VARIABLES
    clock,        \* time.time(), in seconds
    prices,       \* the PriceRanges sheet
    states,       \* correction_state.states: requests and sessions, one dict
    orderStates,  \* ORDER_STATES: user -> pending client-info prompt
    orders,       \* the Orders sheet
    ledger,       \* the Sales, Expenses and Income sheets, in append order
    history,      \* the PriceHistory sheet
    budgets,      \* the Budgets sheet
    archive,      \* the DeletedTransactions sheet
    recorded,     \* how many transaction rows have been appended so far
    recurring,    \* the Recurring sheet
    last          \* what the latest call of process_command did and returned

vars ==
    <<clock, prices, states, orderStates, orders, ledger, history, budgets, archive,
      recorded, recurring, last>>

NoOrder == [order_id |-> NoKey, expires |-> 0]

NoSubjects == <<>>

\* The latest call of process_command: the kind of message, its sender, the
\* parts of a bare numeric text and the kind of reply returned. A tick of the
\* clock clears it.
Blank == [op |-> "none", user |-> "", text |-> <<>>, reply |-> "none", id |-> NoKey]

Called(op, user, text, reply) ==
    [op |-> op, user |-> user, text |-> text, reply |-> reply, id |-> NoKey]

\* ------------------------------------------------------------------------
\* CorrectionState
\* ------------------------------------------------------------------------
\* CorrectionState.cleanup
cleanup(st, now) == SelectSeq(st, LAMBDA e : ~(now > e.expires))

\* CorrectionState.add_correction
add_correction(st, user, tx, item, amount, lo, hi, now) ==
    cleanup(
        Put(st, [key |-> StateId(user, now), kind |-> "req", user |-> user,
                 tx |-> tx, item |-> item, amount |-> amount, min |-> lo,
                 max |-> hi, ids |-> <<>>,
                 expires |-> now + CorrectionTTL, subjects |-> NoSubjects]),
        now)

\* The expiry test with the bound included: a state is still taken in the
\* second it expires
UnexpiredInclusive(e, now) == now <= e.expires

\* The expiry test left out
UnexpiredAlways(e, now) == TRUE

\* time.time() < state['expires_at'], the test get_correction and
\* handle_correction_response both make
Unexpired(e, now) == now < e.expires

\* CorrectionState.get_correction: the state when it is there and unexpired;
\* an expired one is deleted by the access.
get_correction(st, id, now) ==
    IF HasKey(st, id) /\ Unexpired(Get(st, id), now)
    THEN [found |-> TRUE, corr |-> Get(st, id), states |-> st]
    ELSE [found |-> FALSE, corr |-> NoKey, states |-> DelKey(st, id)]

\* CorrectionState.remove_correction
remove_correction(st, id) == DelKey(st, id)

RECURSIVE RemoveAll(_, _, _)
RemoveAll(st, ids, i) ==
    IF i > Len(ids) THEN st
    ELSE RemoveAll(remove_correction(st, ids[i]), ids, i + 1)

\* The user's numbers: the parts of the text that str.isdigit() accepts
Numbers(parts) == SelectSeq(parts, LAMBDA p : p >= 0)

\* The sessions of every user taken as the user's own
ActiveCorrectionsAnyUser(st, user, now) ==
    SelectSeq(st, LAMBDA e : e.kind = "sess" /\ Unexpired(e, now))

\* The sessions handle_correction_response finds for a user: transaction
\* level states ('state_ids' in state) of that user that have not expired.
ActiveCorrections(st, user, now) ==
    SelectSeq(st, LAMBDA e : e.user = user /\ e.kind = "sess" /\ Unexpired(e, now))

\* The inner loop of handle_correction_response: every number of the reply
\* applied to one correction.
RECURSIVE ApplyChoices(_, _, _, _, _, _)
ApplyChoices(corr, numbers, i, table, acts, user) ==
    IF i > Len(numbers) THEN [prices |-> table, acts |-> acts]
    ELSE LET choice == numbers[i]
             new_min == Min2(corr.min, corr.amount)
             new_max == Max2(corr.max, corr.amount)
             act == [item |-> corr.item, choice |-> choice, amount |-> corr.amount,
                     min |-> new_min, max |-> new_max, req |-> corr.key,
                     reqExpires |-> corr.expires]
         IN  IF choice = 4
             THEN ApplyChoices(corr, numbers, i + 1,
                               train_price(table, corr.item, new_min, new_max, ""),
                               Append(acts, act), user)
             ELSE IF choice \in {1, 2, 3, 5}
             THEN ApplyChoices(corr, numbers, i + 1, table, Append(acts, act), user)
             ELSE ApplyChoices(corr, numbers, i + 1, table, acts, user)

\* The outer loop of handle_correction_response over state_ids
RECURSIVE ResolveIds(_, _, _, _, _, _, _, _)
ResolveIds(ids, i, st, table, acts, numbers, user, now) ==
    IF i > Len(ids) THEN [states |-> st, prices |-> table, acts |-> acts]
    ELSE LET g == get_correction(st, ids[i], now) IN
         IF ~g.found
         THEN ResolveIds(ids, i + 1, g.states, table, acts, numbers, user, now)
         ELSE LET r == ApplyChoices(g.corr, numbers, 1, table, acts, user) IN
              ResolveIds(ids, i + 1, g.states, r.prices, r.acts, numbers, user, now)

\* handle_correction_response: reply "none" stands for the return value None
handle_correction_response(parts, user, st, table, now) ==
    LET numbers == Numbers(parts)
        active == ActiveCorrections(st, user, now)
        none == [reply |-> "none", states |-> st, prices |-> table, acts |-> <<>>,
                 sess |-> NoKey, sessExpires |-> 0]
    IN  IF numbers = <<>> THEN none
        ELSE IF active = <<>> THEN none
        ELSE LET state == active[Len(active)]
                 r == ResolveIds(state.ids, 1, st, table, <<>>, numbers, user, now)
                 cleaned == RemoveAll(DelKey(r.states, state.key), state.ids, 1)
             IN  [reply |-> IF r.acts # <<>> THEN "correction" ELSE "none",
                  states |-> cleaned, prices |-> r.prices, acts |-> r.acts,
                  sess |-> state.key, sessExpires |-> state.expires]

\* ------------------------------------------------------------------------
\* Orders
\* ------------------------------------------------------------------------
OrderRows(id) == {i \in 1..Len(orders) : orders[i].id = id}

\* The prompt taken as expired in the second it expires
handle_order_state_early(user, now) ==
    LET state == orderStates[user] IN
    IF state = NoOrder \/ now >= state.expires
    THEN [handled |-> FALSE, orderStates |-> [orderStates EXCEPT ![user] = NoOrder],
          orders |-> orders]
    ELSE IF OrderRows(state.order_id) = {}
    THEN [handled |-> FALSE, orderStates |-> orderStates, orders |-> orders]
    ELSE LET row == CHOOSE i \in OrderRows(state.order_id) :
                        \A j \in OrderRows(state.order_id) : i <= j
         IN  [handled |-> TRUE,
              orderStates |-> [orderStates EXCEPT ![user] = NoOrder],
              orders |-> [orders EXCEPT ![row].client = "given"]]

\* handle_order_state: a pending, unexpired prompt takes the message as the
\* client's name; an expired prompt is deleted.
handle_order_state(user, now) ==
    LET state == orderStates[user] IN
    IF state = NoOrder \/ now > state.expires
    THEN [handled |-> FALSE, orderStates |-> [orderStates EXCEPT ![user] = NoOrder],
          orders |-> orders]
    ELSE IF OrderRows(state.order_id) = {}
    THEN [handled |-> FALSE, orderStates |-> orderStates, orders |-> orders]
    ELSE LET row == CHOOSE i \in OrderRows(state.order_id) :
                        \A j \in OrderRows(state.order_id) : i <= j
         IN  [handled |-> TRUE,
              orderStates |-> [orderStates EXCEPT ![user] = NoOrder],
              orders |-> [orders EXCEPT ![row].client = "given"]]

\* process_command, lines 2896-2899: the message was taken by the order prompt
Intercepted(user, op, text, os) ==
    /\ orderStates' = os.orderStates
    /\ orders' = os.orders
    /\ last' = Called(op, user, text, "order_updated")
    /\ UNCHANGED <<clock, prices, states, ledger, history, budgets, archive, recorded, recurring>>

\* ------------------------------------------------------------------------
\* Budgets
\* ------------------------------------------------------------------------
BudgetRow(key, amount, user, alert) ==
    [key |-> key, amount |-> amount, spent |-> 0, remaining |-> amount,
     user |-> user, alert |-> alert, status |-> "active"]

\* The rows of a budget key compared as it is spelled
BudgetMatchesExact(rows, key, user) ==
    {i \in 1..Len(rows) : rows[i].key = key /\ rows[i].user = user}

\* row[0].strip().lower() == category_item.lower() and row[8].strip() ==
\* user_name, whatever the status of the row
BudgetMatches(rows, key, user) ==
    {i \in 1..Len(rows) : Lower(rows[i].key) = Lower(key) /\ rows[i].user = user}

\* set_budget: the first row of (key, user) is overwritten, else a row is added
set_budget(rows, key, amount, user, alert) ==
    IF BudgetMatches(rows, key, user) # {}
    THEN LET i == CHOOSE x \in BudgetMatches(rows, key, user) :
                      \A y \in BudgetMatches(rows, key, user) : x <= y
         IN  [rows EXCEPT ![i] = BudgetRow(key, amount, user, alert)]
    ELSE Append(rows, BudgetRow(key, amount, user, alert))

\* process_command, +delete_budget: the first row of (key, user) is marked
delete_budget(rows, key, user) ==
    IF BudgetMatches(rows, key, user) = {} THEN rows
    ELSE LET i == CHOOSE x \in BudgetMatches(rows, key, user) :
                      \A y \in BudgetMatches(rows, key, user) : x <= y
         IN  [rows EXCEPT ![i].status = "deleted"]

\* The charging that alerts only above the threshold
RECURSIVE update_budget_spending_above(_, _, _, _, _)
update_budget_spending_above(rows, i, key, amount, user) ==
    IF i > Len(rows) THEN [budgets |-> rows, alert |-> FALSE]
    ELSE IF /\ Lower(rows[i].key) = Lower(key)
            /\ rows[i].user = user
            /\ rows[i].status = "active"
    THEN LET new_spent == rows[i].spent + amount
             remaining == rows[i].amount - new_spent
             charged == [rows EXCEPT ![i].spent = new_spent,
                                     ![i].remaining = remaining]
         IN  IF rows[i].amount > 0 /\ new_spent * 100 > rows[i].alert * rows[i].amount
             THEN [budgets |-> charged, alert |-> TRUE]
             ELSE update_budget_spending_above(charged, i + 1, key, amount, user)
    ELSE update_budget_spending_above(rows, i + 1, key, amount, user)

\* The charging that leaves the remaining value as it was
RECURSIVE update_budget_spending_stale(_, _, _, _, _)
update_budget_spending_stale(rows, i, key, amount, user) ==
    IF i > Len(rows) THEN [budgets |-> rows, alert |-> FALSE]
    ELSE IF /\ Lower(rows[i].key) = Lower(key)
            /\ rows[i].user = user
            /\ rows[i].status = "active"
    THEN LET new_spent == rows[i].spent + amount
             charged == [rows EXCEPT ![i].spent = new_spent]
         IN  IF rows[i].amount > 0 /\ new_spent * 100 >= rows[i].alert * rows[i].amount
             THEN [budgets |-> charged, alert |-> TRUE]
             ELSE update_budget_spending_stale(charged, i + 1, key, amount, user)
    ELSE update_budget_spending_stale(rows, i + 1, key, amount, user)

\* update_budget_spending: every active row of (key, user) is charged, up to
\* and including the first one that reaches its alert threshold.
RECURSIVE update_budget_spending(_, _, _, _, _)
update_budget_spending(rows, i, key, amount, user) ==
    IF i > Len(rows) THEN [budgets |-> rows, alert |-> FALSE]
    ELSE IF /\ Lower(rows[i].key) = Lower(key)
            /\ rows[i].user = user
            /\ rows[i].status = "active"
    THEN LET new_spent == rows[i].spent + amount
             remaining == rows[i].amount - new_spent
             charged == [rows EXCEPT ![i].spent = new_spent,
                                     ![i].remaining = remaining]
         IN  IF rows[i].amount > 0 /\ new_spent * 100 >= rows[i].alert * rows[i].amount
             THEN [budgets |-> charged, alert |-> TRUE]
             ELSE update_budget_spending(charged, i + 1, key, amount, user)
    ELSE update_budget_spending(rows, i + 1, key, amount, user)

\* ------------------------------------------------------------------------
\* record_transaction
\* ------------------------------------------------------------------------
IsAnomaly(check) == check.status \in {"below", "above"}

\* The anomalous subjects record_transaction finds, in the order it finds
\* them: the detected items (range taken from the detected row), then the
\* category (range taken from check_price).
ItemSubjects(table, desc, amount) ==
    LET detected == auto_detect_items_in_description(table, desc)
        odd == SelectSeq(detected,
                         LAMBDA r : IsAnomaly(check_price(table, r.item, amount)))
    IN  [i \in 1..Len(odd) |->
            [item |-> odd[i].item, amount |-> amount, min |-> odd[i].min,
             max |-> odd[i].max,
             status |-> check_price(table, odd[i].item, amount).status,
             difference |-> check_price(table, odd[i].item, amount).difference]]

CategorySubjects(table, desc, amount) ==
    IF desc.cat # "" /\ IsAnomaly(check_price(table, desc.cat, amount))
    THEN LET c == check_price(table, desc.cat, amount) IN
         << [item |-> desc.cat, amount |-> amount, min |-> c.range.min,
             max |-> c.range.max, status |-> c.status,
             difference |-> c.difference] >>
    ELSE <<>>

Subjects(table, desc, amount) ==
    ItemSubjects(table, desc, amount) \o CategorySubjects(table, desc, amount)

\* The second in which the i-th add_correction of one record_transaction call
\* runs: dt seconds pass between the first one and the later ones.
CallTime(i, t0, dt) == IF i = 1 THEN t0 ELSE t0 + dt

RECURSIVE AddCorrections(_, _, _, _, _, _, _)
AddCorrections(st, subjects, i, user, tx, t0, dt) ==
    IF i > Len(subjects) THEN st
    ELSE AddCorrections(
             add_correction(st, user, tx, subjects[i].item, subjects[i].amount,
                            subjects[i].min, subjects[i].max, CallTime(i, t0, dt)),
             subjects, i + 1, user, tx, t0, dt)

\* state_ids = [c['state_id'] for c in correction_states]
StateIds(subjects, user, t0, dt) ==
    [i \in 1..Len(subjects) |-> StateId(user, CallTime(i, t0, dt))]

\* correction_state.states[transaction_id] = {...}; subjects is a history
\* field: the anomalies the prompt listed, which the code keeps only in the
\* reply text.
SessionEntry(tx, user, ids, subjects, now) ==
    [key |-> tx, kind |-> "sess", user |-> user, tx |-> tx, item |-> "",
     amount |-> 0, min |-> 0, max |-> 0, ids |-> ids,
     expires |-> now + CorrectionTTL, subjects |-> subjects]

OpenSession(st, tx, user, ids, subjects, now) ==
    IF subjects = <<>> THEN st
    ELSE Put(st, SessionEntry(tx, user, ids, subjects, now))

\* The confirmation with the alert whatever the recording
ConfirmationAlways(tx, subjects) ==
    [id |-> tx, reply |-> "recorded_with_prompt"]

\* The confirmation message of record_transaction (lines 1960-1994): the id
\* of the transaction, and the price alert with its menu of five choices
\* when the recording has anomalies
Confirmation(tx, subjects) ==
    [id |-> tx,
     reply |-> IF subjects # <<>> THEN "recorded_with_prompt" ELSE "recorded"]

\* record_price_history for every detected item, then for the category
HistoryRows(table, desc, amount, tx, user) ==
    LET detected == auto_detect_items_in_description(table, desc) IN
    [i \in 1..Len(detected) |->
        [item |-> detected[i].item, price |-> amount, tx |-> tx, user |-> user]]
    \o (IF desc.cat # ""
        THEN << [item |-> desc.cat, price |-> amount, tx |-> tx, user |-> user] >>
        ELSE <<>>)

\* datetime.now().strftime('%Y-%m-%d'): the day a second falls in
Day(t) == t \div DaySeconds

LedgerRow(tx, type, amount, desc, user, now) ==
    [id |-> tx, date |-> Day(now), type |-> type, amount |-> amount,
     category |-> desc.cat, user |-> user]

\* The budget update left out of the record call
ChargeBudgetSkipped(rows, desc, amount, user) == [budgets |-> rows, alert |-> FALSE]

\* The charging of the category and of an item named in the description
ChargeBudgetItems(rows, desc, amount, user) ==
    LET first == IF desc.cat # ""
                 THEN update_budget_spending(rows, 1, desc.cat, amount, user)
                 ELSE [budgets |-> rows, alert |-> FALSE]
    IN  IF desc.items = {} THEN first
        ELSE update_budget_spending(first.budgets, 1, CHOOSE it \in desc.items : TRUE,
                                    amount, user)

\* update_budget_spending(f"#{category}", amount, user_name) when the
\* description has a category
ChargeBudget(rows, desc, amount, user) ==
    IF desc.cat # "" THEN update_budget_spending(rows, 1, desc.cat, amount, user)
    ELSE [budgets |-> rows, alert |-> FALSE]

\* The days get_category_averages looks back
AuditDays == 30

\* sum(amounts) of the rows at the positions in a set
RECURSIVE SumAmounts(_, _)
SumAmounts(led, rows) ==
    IF rows = {} THEN 0
    ELSE LET i == CHOOSE x \in rows : TRUE IN
         led[i].amount + SumAmounts(led, rows \ {i})

\* audit_expense after the row was appended: the average of the user's
\* expenses of the category over the last 30 days, the new row among them;
\* an amount above 1.5 times the average is divided by the average, which
\* raises when the average is 0
AuditRaises(led, desc, amount, user, now) ==
    LET rows == {i \in 1..Len(led) :
                    /\ led[i].type = "expense"
                    /\ led[i].user = user
                    /\ led[i].category = desc.cat
                    /\ led[i].date >= Day(now) - AuditDays}
    IN  /\ rows # {}
        /\ SumAmounts(led, rows) = 0
        /\ amount > 0

\* ------------------------------------------------------------------------
\* Initial state: empty sheets, empty in-memory stores
\* ------------------------------------------------------------------------
Init ==
    /\ clock = 0
    /\ prices = <<>>
    /\ states = <<>>
    /\ orderStates = [u \in Users |-> NoOrder]
    /\ orders = <<>>
    /\ ledger = <<>>
    /\ history = <<>>
    /\ budgets = <<>>
    /\ archive = <<>>
    /\ recorded = 0
    /\ recurring = <<>>
    /\ last = Blank

\* ------------------------------------------------------------------------
\* Actions: the passing of time, and process_command on one message
\* ------------------------------------------------------------------------
Tick ==
    /\ \E t \in TimePoints : t > clock /\ clock' = t
    /\ last' = Blank
    /\ UNCHANGED <<prices, states, orderStates, orders, ledger, history, budgets, archive, recorded, recurring>>

\* The passing of seconds up to one of the given times
TickTo(points) ==
    /\ \E t \in points : t > clock /\ clock' = t
    /\ last' = Blank
    /\ UNCHANGED <<prices, states, orderStates, orders, ledger, history, budgets, archive, recorded, recurring>>

\* "+sale|+expense|+income <amount> <description>": record_transaction.
\* n and n2 are the random parts of the transaction id and of the order id,
\* dt the seconds that pass between the first add_correction and the later
\* ones, ok whether worksheet.append_row succeeds.
MsgRecord(user, type, amount, desc, n, n2, dt, ok) ==
    /\ clock + dt \in TimePoints
    /\ LET os == handle_order_state(user, clock) IN
       IF os.handled THEN Intercepted(user, "record", <<>>, os)
       ELSE
       LET tx == TransactionId(type, n)
           now == clock + dt
           subjects == Subjects(prices, desc, amount)
           added == AddCorrections(states, subjects, 1, user, tx, clock, dt)
           ids == StateIds(subjects, user, clock, dt)
           charge == ChargeBudget(budgets, desc, amount, user)
           order_id == TransactionId("order", n2)
       IN  IF ~ok
           THEN /\ states' = added
                /\ clock' = now
                /\ orderStates' = os.orderStates
                /\ last' = Called("record", user, <<>>, "failed_save")
                /\ UNCHANGED <<prices, orders, ledger, history, budgets, archive, recorded, recurring>>
           ELSE /\ ledger' = Append(ledger, LedgerRow(tx, type, amount, desc, user, now))
                /\ states' = OpenSession(added, tx, user, ids, subjects, now)
                /\ history' = history \o HistoryRows(prices, desc, amount, tx, user)
                /\ budgets' = charge.budgets
                /\ IF type = "sale"
                   THEN /\ orders' = Append(orders, [id |-> order_id, client |-> ""])
                        /\ orderStates' = [os.orderStates EXCEPT ![user] =
                               [order_id |-> order_id, expires |-> now + OrderTTL]]
                   ELSE /\ orders' = orders
                        /\ orderStates' = os.orderStates
                /\ clock' = now
                /\ last' = IF type = "expense"
                               /\ AuditRaises(Append(ledger, LedgerRow(tx, type, amount,
                                                                        desc, user, now)),
                                              desc, amount, user, now)
                            THEN Called("record", user, <<>>, "failed_save")
                            ELSE [Called("record", user, <<>>,
                                         Confirmation(tx, subjects).reply)
                                  EXCEPT !.id = Confirmation(tx, subjects).id]
                /\ recorded' = recorded + 1
                /\ UNCHANGED <<prices, archive, recurring>>

\* A text of digits, commas and spaces (process_command, lines 2903-2906);
\* no name of the model is such a text, so auto_suggest_price finds nothing
\* and a reply the correction handler does not answer ends as unrecognized.
MsgBare(user, parts) ==
    LET os == handle_order_state(user, clock) IN
    IF os.handled THEN Intercepted(user, "bare", parts, os)
    ELSE LET r == handle_correction_response(parts, user, states, prices, clock) IN
         /\ states' = r.states
         /\ prices' = r.prices
         /\ orderStates' = os.orderStates
         /\ last' = Called("bare", user, parts,
                           IF r.reply # "none" THEN "correction" ELSE "unknown")
         /\ UNCHANGED <<clock, orders, ledger, history, budgets, archive, recorded, recurring>>

\* The validation without the realism limit
TrainVerdictNoLimit(lo, hi) ==
    IF lo >= hi THEN "min_not_below_max" ELSE "trained"

\* The validation with min = max let through
TrainVerdictLax(lo, hi) ==
    IF lo > hi THEN "min_not_below_max"
    ELSE IF hi > RealismLimit THEN "unrealistic"
    ELSE "trained"

\* The validation of "+train" (process_command, lines 3222-3226): the reply
\* that rejects the prices, or "trained" when they pass
TrainVerdict(lo, hi) ==
    IF lo >= hi THEN "min_not_below_max"
    ELSE IF hi > RealismLimit THEN "unrealistic"
    ELSE "trained"

\* "+train <item> <min> <max> [<unit>]" (process_command, lines 3206-3228)
MsgTrain(user, item, lo, hi, unit) ==
    LET os == handle_order_state(user, clock) IN
    IF os.handled THEN Intercepted(user, "train", <<>>, os)
    ELSE /\ orderStates' = os.orderStates
         /\ prices' = IF TrainVerdict(lo, hi) = "trained"
                      THEN train_price(prices, item, lo, hi, unit)
                      ELSE prices
         /\ last' = Called("train", user, <<>>, TrainVerdict(lo, hi))
         /\ UNCHANGED <<clock, states, orders, ledger, history, budgets, archive, recorded, recurring>>

\* Python's None
NoneValue == "None"

\* parse_train_command on an unquoted text: the first word is the name when
\* there are at least three words, the first two numbers after it are the
\* prices and the other words the unit (the texts here have at most two
\* numbers and one other word after the name). A failure returns
\* (None, None, None, message): the message is the fourth component.
parse_train_command(toks) ==
    LET rest == IF Len(toks) >= 3 THEN Tail(toks) ELSE toks
        numbers == SelectSeq(rest, LAMBDA t : t.num)
        unit_parts == SelectSeq(rest, LAMBDA t : ~t.num)
    IN  IF Len(toks) < 3
        THEN [item |-> NoneValue, min |-> NoneValue, max |-> NoneValue,
              unit |-> "no_item_name"]
        ELSE IF Len(numbers) < 2
        THEN [item |-> NoneValue, min |-> NoneValue, max |-> NoneValue,
              unit |-> "no_two_prices"]
        ELSE [item |-> toks[1].s, min |-> numbers[1].v, max |-> numbers[2].v,
              unit |-> IF unit_parts = <<>> THEN "" ELSE unit_parts[1].s]

\* "+train ..." as a text (process_command, lines 3207-3228): when the parser
\* gives no name, the second component of its result is returned
MsgTrainText(user, toks) ==
    LET p == parse_train_command(toks) IN
    IF p.item # NoneValue THEN MsgTrain(user, p.item, p.min, p.max, p.unit)
    ELSE LET os == handle_order_state(user, clock) IN
         IF os.handled THEN Intercepted(user, "train", <<>>, os)
         ELSE /\ orderStates' = os.orderStates
              /\ last' = Called("train", user, <<>>,
                                IF p.min = NoneValue THEN "returned_none" ELSE p.min)
              /\ UNCHANGED <<clock, prices, states, orders, ledger, history, budgets,
                             archive, recorded, recurring>>

\* "+forget <item>" (process_command, lines 3231-3241)
MsgForget(user, item) ==
    LET os == handle_order_state(user, clock) IN
    IF os.handled THEN Intercepted(user, "forget", <<>>, os)
    ELSE /\ orderStates' = os.orderStates
         /\ prices' = forget_price(prices, item)
         /\ last' = Called("forget", user, <<>>,
                           IF MatchingRows(prices, item) = {}
                           THEN "not_found" ELSE "forgot")
         /\ UNCHANGED <<clock, states, orders, ledger, history, budgets, archive, recorded, recurring>>

\* A text that is no command: the quick-record suggestion when it is the
\* name of a trained subject, else the unrecognized-command reply.
MsgText(user, text) ==
    LET os == handle_order_state(user, clock) IN
    IF os.handled THEN Intercepted(user, "text", <<>>, os)
    ELSE /\ orderStates' = os.orderStates
         /\ last' = Called("text", user, <<>>,
                           IF check_price(prices, text, 0) # NoCheck
                           THEN "suggestion" ELSE "unknown")
         /\ UNCHANGED <<clock, prices, states, orders, ledger, history, budgets, archive, recorded, recurring>>

\* any(text_lower.startswith(prefix) for prefix in ['+', '/', 'balance',
\* 'today', 'week', 'month', 'help', 'tutorial']), over the texts of the model
StartsWithReserved(text) == text \in {"balance", "today", "week", "month", "help"}

\* The rule of the command chain that answers a text (process_command,
\* lines 2930-3506); each of these only reads the store
KeywordReply(text) ==
    CASE text = "help" -> "help"
      [] text = "balance" -> "balance_report"
      [] text = "today" -> "today_report"
      [] text = "week" -> "week_report"
      [] text = "month" -> "month_report"
      [] text = "categories" -> "categories_report"
      [] text = "list" -> "transactions_list"
      [] text = "delete" -> "deletion_list"
      [] OTHER -> "unknown"

\* The quick-record rule with no test of the prefix
SuggestsAlways(table, text) == check_price(table, text, 0) # NoCheck

\* The quick-record rule (process_command, lines 2908-2925): skipped for a
\* text with a reserved prefix, else auto_suggest_price finds the range
Suggests(table, text) ==
    ~StartsWithReserved(text) /\ check_price(table, text, 0) # NoCheck

\* A text with no digits: the order prompt, the quick-record rule, then the
\* command chain
MsgKeyword(user, text) ==
    LET os == handle_order_state(user, clock) IN
    IF os.handled THEN Intercepted(user, "keyword", <<text>>, os)
    ELSE /\ orderStates' = os.orderStates
         /\ last' = Called("keyword", user, <<text>>,
                           IF Suggests(prices, text) THEN "suggestion"
                           ELSE KeywordReply(text))
         /\ UNCHANGED <<clock, prices, states, orders, ledger, history, budgets, archive, recorded, recurring>>

\* "price_check <item>" (process_command, lines 3244-3267): the evaluation of
\* the item at amount 0, answered with the range or with its absence
MsgPriceCheck(user, item) ==
    LET os == handle_order_state(user, clock) IN
    IF os.handled THEN Intercepted(user, "price_check", <<>>, os)
    ELSE /\ orderStates' = os.orderStates
         /\ last' = Called("price_check", user, <<>>,
                           IF check_price(prices, item, 0) = NoCheck
                           THEN "no_training" ELSE "price_info")
         /\ UNCHANGED <<clock, prices, states, orders, ledger, history, budgets, archive, recorded, recurring>>

\* get_price_history: the rows of the item, whatever its case, in the order
\* recorded (every row here is of the same day, inside the 90 days looked at)
get_price_history(hist, item) ==
    SelectSeq(hist, LAMBDA h : Lower(h.item) = Lower(item))

\* analyze_price_trends: nothing under two rows; the quantity of a row is 1
\* here, so the unit prices are the prices. With three rows or more the
\* change is divided by the third price from the end, whatever it is; with
\* two rows by the oldest price when it is above 0.
analyze_price_trends(hist, item) ==
    LET h == get_price_history(hist, item)
        k == Len(h)
        old == IF k >= 3 THEN h[k - 2].price ELSE h[1].price
        diff == h[k].price - old
    IN  IF k < 2 THEN "nothing"
        ELSE IF k >= 3 /\ old = 0 THEN "ZeroDivisionError"
        ELSE IF old > 0 /\ diff * 100 > 5 * old THEN "up"
        ELSE IF old > 0 /\ diff * 100 < (-5) * old THEN "down"
        ELSE "stable"

\* "price_history <item>" or "trends <item>" (process_command, lines
\* 2965-3001): nothing catches what analyze_price_trends raises
MsgPriceHistory(user, item) ==
    LET os == handle_order_state(user, clock) IN
    IF os.handled THEN Intercepted(user, "price_history", <<>>, os)
    ELSE LET trends == analyze_price_trends(history, item) IN
         /\ orderStates' = os.orderStates
         /\ last' = Called("price_history", user, <<>>,
                           CASE trends = "nothing" -> "not_enough_history"
                             [] trends = "ZeroDivisionError" -> "raised"
                             [] OTHER -> "price_trends")
         /\ UNCHANGED <<clock, prices, states, orders, ledger, history, budgets, archive, recorded, recurring>>

\* "+budget <key> <amount> <period> [<alertPct>]" (lines 3051-3070)
MsgBudget(user, key, amount, alert) ==
    LET os == handle_order_state(user, clock) IN
    IF os.handled THEN Intercepted(user, "budget", <<>>, os)
    ELSE /\ orderStates' = os.orderStates
         /\ budgets' = set_budget(budgets, key, amount, user, alert)
         /\ last' = Called("budget", user, <<>>, "budget_set")
         /\ UNCHANGED <<clock, prices, states, orders, ledger, history, archive, recorded, recurring>>

\* "+delete_budget <key>" (lines 3128-3146)
MsgDeleteBudget(user, key) ==
    LET os == handle_order_state(user, clock) IN
    IF os.handled THEN Intercepted(user, "delete_budget", <<>>, os)
    ELSE /\ orderStates' = os.orderStates
         /\ budgets' = delete_budget(budgets, key, user)
         /\ last' = Called("delete_budget", user, <<>>,
                           IF BudgetMatches(budgets, key, user) = {}
                           THEN "not_found" ELSE "budget_deleted")
         /\ UNCHANGED <<clock, prices, states, orders, ledger, history, archive, recorded, recurring>>

\* ------------------------------------------------------------------------
\* Deletion
\* ------------------------------------------------------------------------
SheetTypes == <<"sale", "expense", "income">>

\* get_transactions(sheet, user_filter=user): the user's rows of one sheet in
\* sheet order, as positions of the ledger
get_transactions(led, type, user) ==
    SelectSeq([i \in 1..Len(led) |-> i],
              LAMBDA i : led[i].type = type /\ led[i].user = user)

\* The sheets find_transaction_by_id searches: the one the prefix names, or
\* all three
SheetsOfId(id) ==
    IF \E i \in 1..3 : Prefix(SheetTypes[i]) = id.a
    THEN SelectSeq(SheetTypes, LAMBDA ty : Prefix(ty) = id.a)
    ELSE SheetTypes

RECURSIVE RowsOfSheets(_, _, _, _)
RowsOfSheets(led, sheets, i, user) ==
    IF i > Len(sheets) THEN <<>>
    ELSE get_transactions(led, sheets[i], user) \o RowsOfSheets(led, sheets, i + 1, user)

\* The search that does not look at who recorded the row
find_transaction_any_user(led, id, user) ==
    LET found == SelectSeq([i \in 1..Len(led) |-> i], LAMBDA i : led[i].id = id)
    IN  IF found = <<>> THEN 0 ELSE Head(found)

\* find_transaction_by_id: the position of the user's first row with the id,
\* 0 when the user has none
find_transaction_by_id(led, id, user) ==
    LET found == SelectSeq(RowsOfSheets(led, SheetsOfId(id), 1, user),
                           LAMBDA i : led[i].id = id)
    IN  IF found = <<>> THEN 0 ELSE Head(found)

\* The row archive_deleted_transaction appends to DeletedTransactions
ArchiveRow(row, deleted_by) ==
    [id |-> row.id, date |-> row.date, type |-> row.type, amount |-> row.amount,
     category |-> row.category, user |-> row.user, deleted_by |-> deleted_by]

\* delete_transaction_by_id from the archiving on: archive_deleted_transaction
\* swallows every exception ("Archive is optional"), then the row is deleted.
archive_and_delete(led, arch, t, row_index, user, archiveOk) ==
    [ledger |-> [i \in 1..(Len(led) - 1) |->
                    IF i < row_index THEN led[i] ELSE led[i + 1]],
     archive |-> IF archiveOk THEN Append(arch, ArchiveRow(led[t], user)) ELSE arch,
     reply |-> "deleted"]

\* delete_transaction_by_id: the transaction is the user's first row with the
\* id; the row deleted is the first row of that sheet with the id, whoever
\* recorded it.
delete_transaction_by_id(led, arch, id, user, archiveOk) ==
    LET t == find_transaction_by_id(led, id, user) IN
    IF t = 0 THEN [ledger |-> led, archive |-> arch, reply |-> "not_found"]
    ELSE LET row_index == CHOOSE i \in 1..Len(led) :
                              /\ led[i].type = led[t].type /\ led[i].id = id
                              /\ \A j \in 1..Len(led) :
                                    (led[j].type = led[t].type /\ led[j].id = id)
                                    => i <= j
         IN  archive_and_delete(led, arch, t, row_index, user, archiveOk)

\* recent.sort(key=date, reverse=True)[0]: the sort is stable, so the first
\* of the rows of the newest date, in the order Sales, Expenses, Income
FirstOfNewest(led, recent) ==
    CHOOSE i \in 1..Len(recent) :
        /\ \A j \in 1..Len(recent) : led[recent[j]].date <= led[recent[i]].date
        /\ \A j \in 1..Len(recent) :
              led[recent[j]].date = led[recent[i]].date => i <= j

\* delete_last_transaction; every row of the model has an id, so the path of
\* rows without one (delete_old_transaction) is not taken
delete_last_transaction(led, arch, user, archiveOk) ==
    LET recent == RowsOfSheets(led, SheetTypes, 1, user) IN
    IF recent = <<>> THEN [ledger |-> led, archive |-> arch, reply |-> "no_recent"]
    ELSE delete_transaction_by_id(led, arch, led[recent[FirstOfNewest(led, recent)]].id,
                                  user, archiveOk)

\* "/delete last" (process_command, lines 3445-3452); archiveOk is whether
\* the append to DeletedTransactions succeeds
MsgDeleteLast(user, archiveOk) ==
    LET os == handle_order_state(user, clock) IN
    IF os.handled THEN Intercepted(user, "delete_last", <<>>, os)
    ELSE LET r == delete_last_transaction(ledger, archive, user, archiveOk) IN
         /\ orderStates' = os.orderStates
         /\ ledger' = r.ledger
         /\ archive' = r.archive
         /\ last' = Called("delete_last", user, <<>>, r.reply)
         /\ UNCHANGED <<clock, prices, states, orders, history, budgets, recorded, recurring>>

\* "/delete id:<id>" (process_command, lines 3454-3456)
MsgDeleteById(user, id, archiveOk) ==
    LET os == handle_order_state(user, clock) IN
    IF os.handled THEN Intercepted(user, "delete_id", <<>>, os)
    ELSE LET r == delete_transaction_by_id(ledger, archive, id, user, archiveOk) IN
         /\ orderStates' = os.orderStates
         /\ ledger' = r.ledger
         /\ archive' = r.archive
         /\ last' = Called("delete_id", user, <<>>, r.reply)
         /\ UNCHANGED <<clock, prices, states, orders, history, budgets, recorded, recurring>>

\* ------------------------------------------------------------------------
\* Recurring transactions
\* ------------------------------------------------------------------------
\* A date is the number of its day, day 0 being 1 January of year 0; every
\* year has the twelve months of a year that is not a leap year.
MonthDays == <<31, 28, 31, 30, 31, 30, 31, 31, 30, 31, 30, 31>>

RECURSIVE DaysBefore(_)
DaysBefore(m) == IF m = 1 THEN 0 ELSE DaysBefore(m - 1) + MonthDays[m - 1]

YearDays == DaysBefore(12) + MonthDays[12]

\* date.year, date.month, date.day
YearOf(n) == n \div YearDays

MonthOf(n) ==
    CHOOSE m \in 1..12 :
        /\ DaysBefore(m) <= n % YearDays
        /\ n % YearDays < DaysBefore(m) + MonthDays[m]

DayOfMonth(n) == (n % YearDays) - DaysBefore(MonthOf(n)) + 1

\* The value of "Last Recorded" of a template never posted
Never == -1

\* add_recurring_transaction: the row appended to the Recurring sheet
RecurringRow(type, amount, desc, freq, user) ==
    [type |-> type, amount |-> amount, desc |-> desc, freq |-> freq,
     last |-> Never, user |-> user, status |-> "active"]

\* The weekly rule that asks for more than seven days
is_due_after_week(row, today) ==
    IF row.last = Never THEN TRUE
    ELSE IF row.freq = "daily" THEN today > row.last
    ELSE IF row.freq = "weekly" THEN today > row.last + 7
    ELSE IF row.freq = "monthly"
    THEN /\ (MonthOf(today) # MonthOf(row.last) \/ YearOf(today) # YearOf(row.last))
         /\ \/ DayOfMonth(today) >= DayOfMonth(row.last)
            \/ (DayOfMonth(today) >= 28 /\ DayOfMonth(row.last) >= 28)
    ELSE FALSE

\* The monthly rule without the fallback of day 28
is_due_no_fallback(row, today) ==
    IF row.last = Never THEN TRUE
    ELSE IF row.freq = "daily" THEN today > row.last
    ELSE IF row.freq = "weekly" THEN today >= row.last + 7
    ELSE IF row.freq = "monthly"
    THEN /\ (MonthOf(today) # MonthOf(row.last) \/ YearOf(today) # YearOf(row.last))
         /\ DayOfMonth(today) >= DayOfMonth(row.last)
    ELSE FALSE

\* check_recurring_due, lines 1408-1424: whether a template is due today
is_due(row, today) ==
    IF row.last = Never THEN TRUE
    ELSE IF row.freq = "daily" THEN today > row.last
    ELSE IF row.freq = "weekly" THEN today >= row.last + 7
    ELSE IF row.freq = "monthly"
    THEN /\ (MonthOf(today) # MonthOf(row.last) \/ YearOf(today) # YearOf(row.last))
         /\ \/ DayOfMonth(today) >= DayOfMonth(row.last)
            \/ (DayOfMonth(today) >= 28 /\ DayOfMonth(row.last) >= 28)
    ELSE FALSE

\* check_recurring_due: the positions of the user's active templates that
\* are due, in sheet order
due_items(rows, user, today) ==
    SelectSeq([i \in 1..Len(rows) |-> i],
              LAMBDA i : /\ rows[i].user = user
                         /\ rows[i].status = "active"
                         /\ is_due(rows[i], today))

\* record_transaction on the stores a recording writes, as the value of those
\* stores after the call; every call is made within one second. A type with
\* no sheet (TYPE_TO_SHEET, lines 1853-1855) is refused and nothing written.
record_transaction(S, user, type, amount, desc, n, n2, now) ==
    LET tx == TransactionId(type, n)
        subjects == Subjects(prices, desc, amount)
        added == AddCorrections(S.states, subjects, 1, user, tx, now, 0)
        ids == StateIds(subjects, user, now, 0)
        charge == ChargeBudget(S.budgets, desc, amount, user)
        order_id == TransactionId("order", n2)
    IN  IF type \notin TransTypes THEN S
        ELSE
        [ledger |-> Append(S.ledger, LedgerRow(tx, type, amount, desc, user, now)),
         states |-> OpenSession(added, tx, user, ids, subjects, now),
         history |-> S.history \o HistoryRows(prices, desc, amount, tx, user),
         budgets |-> charge.budgets,
         orders |-> IF type = "sale"
                    THEN Append(S.orders, [id |-> order_id, client |-> ""])
                    ELSE S.orders,
         orderStates |-> IF type = "sale"
                         THEN [S.orderStates EXCEPT ![user] =
                                  [order_id |-> order_id, expires |-> now + OrderTTL]]
                         ELSE S.orderStates,
         recorded |-> S.recorded + 1,
         recurring |-> S.recurring]

\* The posting that leaves the date of the row as it was
RECURSIVE post_due_undated(_, _, _, _, _, _)
post_due_undated(S, due, i, user, n, now) ==
    IF i > Len(due) THEN S
    ELSE LET row == S.recurring[due[i]]
             R == record_transaction(S, user, row.type, row.amount, row.desc, n, n, now)
         IN  post_due_undated(R, due, i + 1, user, n, now)

\* check_recurring_due(auto_record=True), lines 1438-1445: for every due item
\* in turn, record_transaction and then the date of today in its row
RECURSIVE post_due(_, _, _, _, _, _)
post_due(S, due, i, user, n, now) ==
    IF i > Len(due) THEN S
    ELSE LET row == S.recurring[due[i]]
             R == record_transaction(S, user, row.type, row.amount, row.desc, n, n, now)
         IN  post_due([R EXCEPT !.recurring[due[i]].last = Day(now)],
                      due, i + 1, user, n, now)

\* The passing of days
NewDay(days) ==
    /\ \E d \in days : d * DaySeconds > clock /\ clock' = d * DaySeconds
    /\ last' = Blank
    /\ UNCHANGED <<prices, states, orderStates, orders, ledger, history, budgets,
                   archive, recorded, recurring>>

\* "+recurring <type> <amount> <freq> <description>" (lines 3341-3353)
MsgAddRecurring(user, type, amount, desc, freq) ==
    LET os == handle_order_state(user, clock) IN
    IF os.handled THEN Intercepted(user, "recurring", <<>>, os)
    ELSE /\ orderStates' = os.orderStates
         /\ IF freq \in {"daily", "weekly", "monthly"}
            THEN /\ recurring' = Append(recurring,
                                       RecurringRow(type, amount, desc, freq, user))
                 /\ last' = Called("recurring", user, <<>>, "recurring_added")
            ELSE /\ recurring' = recurring
                 /\ last' = Called("recurring", user, <<>>, "bad_frequency")
         /\ UNCHANGED <<clock, prices, states, orders, ledger, history, budgets,
                        archive, recorded>>

\* "record due" (lines 3355-3356); n is the random part of the ids
MsgRecordDue(user, n) ==
    LET os == handle_order_state(user, clock) IN
    IF os.handled THEN Intercepted(user, "record_due", <<>>, os)
    ELSE LET due == due_items(recurring, user, Day(clock))
             S == post_due([ledger |-> ledger, states |-> states, history |-> history,
                            budgets |-> budgets, orders |-> orders,
                            orderStates |-> os.orderStates, recorded |-> recorded,
                            recurring |-> recurring],
                           due, 1, user, n, clock)
         IN  /\ ledger' = S.ledger
             /\ states' = S.states
             /\ history' = S.history
             /\ budgets' = S.budgets
             /\ orders' = S.orders
             /\ orderStates' = S.orderStates
             /\ recorded' = S.recorded
             /\ recurring' = S.recurring
             /\ last' = Called("record_due", user, <<>>,
                               IF due = <<>> THEN "empty_string" ELSE "auto_recorded")
             /\ UNCHANGED <<clock, prices, archive>>

\* ------------------------------------------------------------------------
\* Specifications
\* ------------------------------------------------------------------------
Record(limit, delays) ==
    /\ Len(ledger) < limit
    /\ \E u \in Actors, ty \in TransTypes, a \in Amounts, d \in Descriptions,
          n \in IdPool, n2 \in IdPool, dt \in delays :
          MsgRecord(u, ty, a, d, n, n2, dt, TRUE)

Bare == \E u \in Actors, p \in BareTexts : MsgBare(u, p)

Train ==
    \E u \in Actors, i \in Names, lo \in TrainVals, hi \in TrainVals, un \in Units :
        MsgTrain(u, i, lo, hi, un)

Forget == \E u \in Actors, i \in Names : MsgForget(u, i)

Text == \E u \in Actors, t \in {"paper", "lunch"} : MsgText(u, t)

TrainAny ==
    \E u \in Actors, i \in KBNames, lo \in KBVals, hi \in KBVals, un \in KBUnits :
        MsgTrain(u, i, lo, hi, un)

ForgetAny == \E u \in Actors, i \in KBNames : MsgForget(u, i)

PriceCheck == \E u \in Actors, i \in KBNames : MsgPriceCheck(u, i)

Budget ==
    \E u \in Actors, a \in BudgetAmounts : MsgBudget(u, "#office", a, DefaultAlertAt)

DeleteBudget == \E u \in Actors : MsgDeleteBudget(u, "#office")

\* The correction dialog: training, recording, replying, time passing
Next ==
    \/ Tick
    \/ Record(MaxTx, {0, 1})
    \/ Bare
    \/ Train

Spec == Init /\ [][Next]_vars

\* The same with two transactions in one run
NextPair ==
    \/ Tick
    \/ Record(MaxPairTx, {0, 1})
    \/ Bare
    \/ Train

SpecPair == Init /\ [][NextPair]_vars

\* The price knowledge base under every operation that writes it
NextKB ==
    \/ Record(MaxTx, {0, 1})
    \/ Bare
    \/ Train
    \/ Forget
    \/ Text

SpecKB == Init /\ [][NextKB]_vars

\* Recording restricted to some transaction types
RecordOf(limit, types, delays) ==
    /\ Len(ledger) < limit
    /\ \E u \in Actors, ty \in types, a \in Amounts, d \in Descriptions,
          n \in IdPool, n2 \in IdPool, dt \in delays :
          MsgRecord(u, ty, a, d, n, n2, dt, TRUE)

\* Recording with the random part of the transaction id drawn freely
RecordDrawn(limit, types, draws) ==
    /\ recorded < limit
    /\ \E u \in Actors, ty \in types, a \in Amounts, d \in Descriptions,
          n \in draws, n2 \in IdPool :
          MsgRecord(u, ty, a, d, n, n2, 0, TRUE)

\* Two expenses whose ids are drawn independently
NextIds ==
    \/ RecordDrawn(MaxPairTx, {"expense"}, IdDraws)
    \/ Bare
    \/ Train

SpecIds == Init /\ [][NextIds]_vars

DeleteLast == \E u \in Users, ok \in BOOLEAN : MsgDeleteLast(u, ok)

DeleteById ==
    \E u \in Users, ty \in {"expense", "income"}, n \in IdDraws, ok \in BOOLEAN :
        MsgDeleteById(u, TransactionId(ty, n), ok)

\* Deletion: two expenses or incomes of freely drawn ids, deleted by id or
\* as the last one, by their user or by another one
NextDelete ==
    \/ RecordDrawn(MaxPairTx, {"expense", "income"}, IdDraws)
    \/ DeleteLast
    \/ DeleteById

SpecDelete == Init /\ [][NextDelete]_vars

\* The operations that answer "not found": "+forget" and the deletion by id,
\* next to the training and the recording that give them something to find
NextNotFound ==
    \/ RecordDrawn(MaxTx, {"expense"}, IdPool)
    \/ DeleteById
    \/ Train
    \/ ForgetAny

SpecNotFound == Init /\ [][NextNotFound]_vars

BudgetAny ==
    \E u \in Users, k \in BudgetKeys, a \in BudgetAmounts :
        MsgBudget(u, k, a, DefaultAlertAt)

DeleteBudgetAny == \E u \in Users, k \in BudgetKeys : MsgDeleteBudget(u, k)

\* Expenses of a category, of positive and of negative amount
RecordSigned(limit) ==
    /\ recorded < limit
    /\ \E u \in Actors, a \in SignedAmounts, d \in Descriptions, n \in IdPool :
          MsgRecord(u, "expense", a, d, n, n, 0, TRUE)

\* Budgets of two users under every spelling of the key, set, deleted and
\* charged
NextSpend ==
    \/ BudgetAny
    \/ DeleteBudgetAny
    \/ RecordSigned(MaxPairTx)

SpecSpend == Init /\ [][NextSpend]_vars

\* Expenses that take a budget below, onto and over its alert threshold
RecordAlert(limit) ==
    /\ recorded < limit
    /\ \E u \in Actors, a \in AlertAmounts, d \in Descriptions, n \in IdPool :
          MsgRecord(u, "expense", a, d, n, n, 0, TRUE)

\* One budget, set, deleted and charged by two recordings
NextAlert ==
    \/ Budget
    \/ DeleteBudget
    \/ RecordAlert(MaxPairTx)

SpecAlert == Init /\ [][NextAlert]_vars

AddRecurring ==
    /\ Len(recurring) < MaxTemplates
    /\ \E u \in Actors, f \in Freqs :
          MsgAddRecurring(u, "expense", 50, [items |-> {}, cat |-> ""], f)

RecordDue ==
    /\ recorded < MaxPosted
    /\ \E u \in Actors, n \in IdPool : MsgRecordDue(u, n)

\* Templates added, days passing, "record due"
NextRecurring ==
    \/ AddRecurring
    \/ NewDay(DayPoints)
    \/ RecordDue

SpecRecurring == Init /\ [][NextRecurring]_vars

\* The types of templates: "+recurring" stores the word it is given
TemplateTypes == {"expense", "rent"}

AddRecurringAny ==
    /\ Len(recurring) < MaxTemplates
    /\ \E u \in Actors, ty \in TemplateTypes, f \in {"daily", "monthly"} :
          MsgAddRecurring(u, ty, 50, [items |-> {}, cat |-> ""], f)

\* Templates of a type the recorder has a sheet for and of one it has none for
NextTypes ==
    \/ AddRecurringAny
    \/ NewDay({1, 2, 40})
    \/ RecordDue

SpecTypes == Init /\ [][NextTypes]_vars

\* Budget keys: a category and the name of an item
FrameKeys == {"#office", "paper"}

BudgetFrame ==
    \/ \E k \in FrameKeys : MsgBudget("ama", k, 100, DefaultAlertAt)
    \/ MsgBudget("kofi", "#office", 100, DefaultAlertAt)

DeleteBudgetFrame == \E u \in Actors, k \in FrameKeys : MsgDeleteBudget(u, k)

\* Budgets of two users for a category and for an item, and recordings that
\* name both
NextFrame ==
    \/ BudgetFrame
    \/ DeleteBudgetFrame
    \/ RecordAlert(MaxPairTx)

SpecFrame == Init /\ [][NextFrame]_vars

TrainText == \E u \in Actors, t \in TrainTexts : MsgTrainText(u, t)

\* The replies to "+train" texts of every shape and to "record due" with and
\* without due templates
NextReplies ==
    \/ TrainText
    \/ AddRecurring
    \/ Tick
    \/ RecordDue

SpecReplies == Init /\ [][NextReplies]_vars

RecordPriced(limit) ==
    /\ recorded < limit
    /\ \E u \in Actors, a \in ZeroAmounts, d \in Descriptions, n \in IdPool :
          MsgRecord(u, "expense", a, d, n, n, 0, TRUE)

PriceHistory == \E u \in Actors, i \in HistoryItems : MsgPriceHistory(u, i)

\* Up to three recordings, of amount 0 too, and the trends of their prices
NextTrends ==
    \/ RecordPriced(MaxPosted)
    \/ PriceHistory

SpecTrends == Init /\ [][NextTrends]_vars

TrainKeyword ==
    /\ Len(prices) < MaxTrained
    /\ \E u \in Actors, k \in IntentTexts : MsgTrain(u, k, 60, 80, "")

ForgetKeyword == \E u \in Actors, k \in IntentTexts : MsgForget(u, k)

Keyword == \E u \in Actors, t \in IntentTexts : MsgKeyword(u, t)

\* A sale with no item and no category: it leaves an order prompt
PlainSale ==
    /\ Len(ledger) < MaxTx
    /\ \E u \in Actors, n \in IdPool :
          MsgRecord(u, "sale", 50, [items |-> {}, cat |-> ""], n, n, 0, TRUE)

\* Keywords trained as names, forgotten and sent as messages, next to a sale
\* and its order prompt
NextIntent ==
    \/ TrainKeyword
    \/ ForgetKeyword
    \/ Keyword
    \/ PlainSale

SpecIntent == Init /\ [][NextIntent]_vars

RecordBy(limit) ==
    /\ recorded < limit
    /\ \E u \in Users, n \in IdDraws :
          MsgRecord(u, "expense", 50, [items |-> {"paper"}, cat |-> ""],
                    n, n, 0, TRUE)

BareBy == \E u \in Users, p \in {<<4>>, <<7>>} : MsgBare(u, p)

TrainBy == \E u \in Actors : MsgTrain(u, "paper", 60, 80, "")

\* Two users who record expenses with anomalies and answer the prompts
NextUsers ==
    \/ Tick
    \/ TrainBy
    \/ RecordBy(MaxPairTx)
    \/ BareBy

SpecUsers == Init /\ [][NextUsers]_vars

\* Amounts below and above the trained ranges, one of them above the limit
\* "+train" accepts for a maximum; a recording accepts every amount
WidenAmounts == Amounts \cup {RealismLimit + 1}

\* A range and a wider one that a later "+train" may store for the same name
TrainWide ==
    \E u \in Actors, r \in {<<60, 80>>, <<40, 100>>} :
        MsgTrain(u, "paper", r[1], r[2], "")

RecordPaper(limit) ==
    /\ recorded < limit
    /\ \E u \in Actors, a \in WidenAmounts, ty \in {"expense", "income"}, n \in IdPool :
          MsgRecord(u, ty, a, [items |-> {"paper"}, cat |-> ""], n, n, 0, TRUE)

\* A name trained, retrained with another range while sessions are open, and
\* the replies to the prompts
NextWiden ==
    \/ Tick
    \/ TrainWide
    \/ RecordPaper(MaxTx)
    \/ Bare

SpecWiden == Init /\ [][NextWiden]_vars

\* Amounts an expense and its refund are recorded with
RefundAmounts == {50, -50}

RecordFailing(limit) ==
    /\ recorded < limit
    /\ \E u \in Actors, a \in RefundAmounts, d \in Descriptions, ok \in BOOLEAN :
          MsgRecord(u, "expense", a, d, 1, 1, 0, ok)

\* Expenses whose append may fail, with a trained name and a budget
NextFail ==
    \/ TrainBy
    \/ Budget
    \/ RecordFailing(MaxPairTx)

SpecFail == Init /\ [][NextFail]_vars

\* Times around the end of an order prompt that was set at 0 or at 1
OrderPoints == {1, OrderTTL, OrderTTL + 1, OrderTTL + 2}

SaleBy ==
    /\ recorded < MaxPairTx
    /\ \E u \in Users, n \in IdDraws :
          MsgRecord(u, "sale", 50, [items |-> {}, cat |-> ""], 1, n, 0, TRUE)

TextBy == \E u \in Users, t \in {"paper", "lunch"} : MsgText(u, t)

\* Sales of two users, their order prompts, the messages that follow and the
\* passing of the 600 seconds
NextOrder ==
    \/ TickTo(OrderPoints)
    \/ SaleBy
    \/ TextBy
    \/ BareBy
    \/ TrainBy

SpecOrder == Init /\ [][NextOrder]_vars

\* The price table under "+train" and "+forget" with every spelling, price
\* and unit, the sales whose order prompt takes the next message, the
\* replies that widen a range, and the evaluation of a name
NextTable ==
    \/ RecordOf(MaxTx, {"sale"}, {0})
    \/ Bare
    \/ TrainAny
    \/ ForgetAny
    \/ PriceCheck

SpecTable == Init /\ [][NextTable]_vars

\* Recording under budgets, every call within one second
NextBudget ==
    \/ Record(MaxTx, {0})
    \/ Bare
    \/ Train
    \/ Budget
    \/ DeleteBudget

SpecBudget == Init /\ [][NextBudget]_vars

\* ------------------------------------------------------------------------
\* Properties of the correction dialog
\* ------------------------------------------------------------------------
\* The positions of the user's sessions that have not expired at a time
OpenSessionsOf(st, user, now) ==
    {i \in 1..Len(st) : st[i].kind = "sess" /\ st[i].user = user
                         /\ now < st[i].expires}

\* The stored range of a name, <<min, max>>; <<>> when it has none
RangeOf(table, item) ==
    IF MatchingRows(table, item) = {} THEN <<>>
    ELSE << table[FirstMatch(table, item)].min,
            table[FirstMatch(table, item)].max >>

\* The reply holds a numeral from 1 to 5
HasValidChoice(parts) == \E i \in 1..Len(parts) : parts[i] \in 1..5

\* C1: while a user has an unexpired correction session, a message of that
\* user made only of digits, commas and spaces is tested against the session:
\* no other handler consumes it first, whatever the type of the transaction
\* that opened the session.
C1_SessionTestedFirst ==
    [][(last'.op = "bare" /\ OpenSessionsOf(states, last'.user, clock) # {})
          => last'.reply # "order_updated"]_vars

\* C2: the session opened by a record call that found k >= 1 anomalous
\* subjects references exactly k distinct pending requests, the i-th holding
\* the key, the amount and the range of the i-th subject.
C2_OneRequestPerSubject ==
    [][(last'.op = "record" /\ last'.reply = "recorded_with_prompt") =>
          LET tx == ledger'[Len(ledger')].id
              s == Get(states', tx)
          IN  /\ HasKey(states', tx)
              /\ s.kind = "sess"
              /\ Len(s.subjects) >= 1
              /\ Len(s.ids) = Len(s.subjects)
              /\ Cardinality({s.ids[i] : i \in 1..Len(s.ids)}) = Len(s.subjects)
              /\ \A i \in 1..Len(s.ids) :
                    /\ HasKey(states', s.ids[i])
                    /\ LET q == Get(states', s.ids[i]) IN
                       /\ q.kind = "req"
                       /\ q.item = s.subjects[i].item
                       /\ q.amount = s.subjects[i].amount
                       /\ q.min = s.subjects[i].min
                       /\ q.max = s.subjects[i].max]_vars

\* C3: a reply "4" that the correction handler answers widens the range of
\* every anomalous subject of the session it resolves to
\* [min(rangeMin, amount), max(rangeMax, amount)].
C3_WidenEverySubject ==
    [][(last'.op = "bare" /\ last'.text = <<4>> /\ last'.reply = "correction") =>
          \A i \in OpenSessionsOf(states, last'.user, clock) :
              ~HasKey(states', states[i].key) =>
                  \A j \in 1..Len(states[i].subjects) :
                      LET sub == states[i].subjects[j] IN
                      RangeOf(prices', sub.item) =
                          << Min2(sub.min, sub.amount), Max2(sub.max, sub.amount) >>]_vars

\* C4: a reply holding a numeral from 1 to 5, sent while the user has exactly
\* one open session, removes the session and all its requests; the identical
\* reply sent right after a resolving reply is not a correction reply, changes
\* no price range and gets the unrecognized-command reply.
C4_ResolvedExactlyOnce ==
    [][/\ (/\ last'.op = "bare"
           /\ HasValidChoice(last'.text)
           /\ Cardinality(OpenSessionsOf(states, last'.user, clock)) = 1)
          => \A i \in OpenSessionsOf(states, last'.user, clock) :
                 /\ ~HasKey(states', states[i].key)
                 /\ \A j \in 1..Len(states[i].ids) :
                        ~HasKey(states', states[i].ids[j])
       /\ (/\ last.op = "bare"
           /\ last.reply = "correction"
           /\ OpenSessionsOf(states, last.user, clock) = {}
           /\ last'.op = "bare"
           /\ last'.user = last.user
           /\ last'.text = last.text)
          => /\ last'.reply = "unknown"
             /\ prices' = prices]_vars

\* C5: no correction action is applied for a session or a request at a time
\* now >= its expiresAt. A reply answered as a correction reply resolves a
\* session of the user that has not expired and acts on a request of it that
\* has not expired, and a range a reply changes is the range of such a
\* request; so a session created at T is not found by a reply at T + 301.
C5_NoActionPastExpiry ==
    [][last'.op = "bare" =>
          /\ last'.reply = "correction" =>
                \E i \in OpenSessionsOf(states, last'.user, clock) :
                    /\ ~HasKey(states', states[i].key)
                    /\ \E j \in 1..Len(states[i].ids) :
                          /\ HasKey(states, states[i].ids[j])
                          /\ clock < Get(states, states[i].ids[j]).expires
          /\ \A it \in Names :
                RangeOf(prices', it) # RangeOf(prices, it) =>
                    \E i \in OpenSessionsOf(states, last'.user, clock) :
                        \E j \in 1..Len(states[i].ids) :
                            /\ HasKey(states, states[i].ids[j])
                            /\ clock < Get(states, states[i].ids[j]).expires
                            /\ Get(states, states[i].ids[j]).item = it]_vars

\* A reply with a valid numeral, sent 301 seconds after the session it would
\* have resolved was created, found no session.
C5_ReplyAfterTTL ==
    /\ last.op = "bare"
    /\ HasValidChoice(last.text)
    /\ last.reply = "unknown"
    /\ \E i \in 1..Len(states) :
          /\ states[i].kind = "sess"
          /\ states[i].user = last.user
          /\ clock = (states[i].expires - CorrectionTTL) + 301

\* The user has sessions in the store and every one of them has expired
OnlyStaleSessions(st, user, now) ==
    /\ \E i \in 1..Len(st) : st[i].kind = "sess" /\ st[i].user = user
    /\ \A i \in 1..Len(st) :
          (st[i].kind = "sess" /\ st[i].user = user) => now >= st[i].expires

\* C6: a bare numeric reply that arrives when the user's sessions have all
\* expired changes no price range and is answered by the ordinary rules, as
\* if there were no session: by the pending order prompt when there is one,
\* else as an unrecognized command.
C6_StaleReplyFallsThrough ==
    [][(last'.op = "bare" /\ OnlyStaleSessions(states, last'.user, clock)) =>
          /\ prices' = prices
          /\ last'.reply = IF handle_order_state(last'.user, clock).handled
                           THEN "order_updated" ELSE "unknown"]_vars

\* A reply "4" got the unrecognized-command reply while the expired session
\* was in the store, and the range the session was about is as trained.
C6_StaleReplyUnrecognized ==
    /\ last = Called("bare", "ama", <<4>>, "unknown")
    /\ OnlyStaleSessions(states, "ama", clock)
    /\ \E i \in 1..Len(states) :
          /\ states[i].kind = "sess"
          /\ \E j \in 1..Len(states[i].subjects) :
                RangeOf(prices, states[i].subjects[j].item)
                    = << states[i].subjects[j].min, states[i].subjects[j].max >>

\* C7: a bare numeric reply that the correction handler gets, holding a
\* valid numeral, leaves none of the user's expired sessions, and none of
\* their requests, in the store.
C7_ExpiredSessionDiscarded ==
    [][(/\ last'.op = "bare"
        /\ HasValidChoice(last'.text)
        /\ last'.reply # "order_updated") =>
          \A i \in 1..Len(states) :
              (/\ states[i].kind = "sess"
               /\ states[i].user = last'.user
               /\ clock >= states[i].expires) =>
                  /\ ~HasKey(states', states[i].key)
                  /\ \A j \in 1..Len(states[i].ids) :
                         ~HasKey(states', states[i].ids[j])]_vars

\* C8: when a user has several unexpired sessions, a reply holding a valid
\* numeral removes the most recently created one and leaves the older ones
\* in the store.
C8_MostRecentOnly ==
    [][(/\ last'.op = "bare"
        /\ HasValidChoice(last'.text)
        /\ Cardinality(OpenSessionsOf(states, last'.user, clock)) >= 2) =>
          LET open == OpenSessionsOf(states, last'.user, clock)
              newest == CHOOSE i \in open : \A j \in open : j <= i
          IN  /\ ~HasKey(states', states[newest].key)
              /\ \A j \in open \ {newest} : HasKey(states', states[j].key)]_vars

\* ------------------------------------------------------------------------
\* Properties of the recorder's side effects and of the price ranges
\* ------------------------------------------------------------------------
\* C9, as claimed: a record call that detects an anomaly and opens a session
\* applies no budget consumption and no price-history logging.
C9_EffectsAfterResolution ==
    [][(last'.op = "record" /\ last'.reply = "recorded_with_prompt") =>
          /\ history' = history
          /\ budgets' = budgets]_vars

\* C9, amended: the record call that detects an anomaly applies the side
\* effects itself, while the session it opens is open: it logs the amount in
\* the price history for every anomalous subject, under the id of the
\* transaction, and adds it to the spending of the user's active budget for
\* the category. A bare numeric reply changes neither the price history nor
\* the budgets.
C9_EffectsAtRecording ==
    [][/\ (last'.op = "record" /\ last'.reply = "recorded_with_prompt") =>
             LET row == ledger'[Len(ledger')]
                 s == Get(states', row.id)
             IN  /\ HasKey(states', row.id)
                 /\ s.kind = "sess"
                 /\ clock' < s.expires
                 /\ SubSeq(history', 1, Len(history)) = history
                 /\ \A i \in (Len(history) + 1)..Len(history') :
                       /\ history'[i].tx = row.id
                       /\ history'[i].price = row.amount
                 /\ \A j \in 1..Len(s.subjects) :
                       \E i \in (Len(history) + 1)..Len(history') :
                           history'[i].item = s.subjects[j].item
                 /\ Len(budgets') = Len(budgets)
                 /\ \A i \in 1..Len(budgets) :
                       budgets'[i].spent =
                           IF /\ budgets[i].status = "active"
                              /\ budgets[i].key = row.category
                              /\ budgets[i].user = row.user
                           THEN budgets[i].spent + row.amount
                           ELSE budgets[i].spent
       /\ last'.op = "bare" =>
             /\ history' = history
             /\ budgets' = budgets]_vars

\* A record call has charged an active budget and logged the price while the
\* session it opened is open.
C9_ChargedWhileOpen ==
    /\ last.op = "record"
    /\ last.reply = "recorded_with_prompt"
    /\ \E i \in 1..Len(budgets) : budgets[i].status = "active" /\ budgets[i].spent > 0
    /\ history # <<>>
    /\ OpenSessionsOf(states, last.user, clock) # {}

C11_InvalidTrainRejected ==
    [][(/\ last'.op = "train"
        /\ last'.reply # "order_updated"
        /\ ~(/\ prices' = prices
              /\ last'.reply \in {"min_not_below_max", "unrealistic"}))
       => \A u \in Actors, k \in KBNames, lo \in KBVals, hi \in KBVals, un \in KBUnits :
             (lo >= hi \/ hi > RealismLimit) => ~MsgTrain(u, k, lo, hi, un)]_vars

\* A "+train" was rejected for its maximum while the table had a range
C11_RejectedOnTrainedTable ==
    /\ last.op = "train"
    /\ last.reply = "unrealistic"
    /\ prices # <<>>

\* C12: after a "+train" of (k, min, max, unit) that succeeded, the lookup of
\* every spelling of k returns exactly that min, max and unit; after a
\* "+forget" of k that succeeded, the lookup of every spelling returns nothing.
C12_RoundTrip ==
    [][/\ (last'.op = "train" /\ last'.reply = "trained")
          => \A u \in Actors, k \in KBNames, lo \in KBVals, hi \in KBVals, un \in KBUnits :
                MsgTrain(u, k, lo, hi, un)
                => \A k2 \in KBNames :
                      Lower(k2) = Lower(k)
                      => LET r == check_price(prices', k2, 0) IN
                         /\ r # NoCheck
                         /\ r.range.min = lo
                         /\ r.range.max = hi
                         /\ r.range.unit = un
       /\ (last'.op = "forget" /\ last'.reply = "forgot")
          => \A u \in Actors, k \in KBNames :
                MsgForget(u, k)
                => \A k2 \in KBNames :
                      Lower(k2) = Lower(k) => check_price(prices', k2, 0) = NoCheck]_vars

\* A name was trained again under its other spelling and with a unit
C12_RetrainedOtherSpelling ==
    /\ last.op = "train"
    /\ last.reply = "trained"
    /\ Len(prices) = 1
    /\ prices[1].item = "Paper"
    /\ prices[1].unit = "ream"
    /\ check_price(prices, "paper", 0).range.unit = "ream"

\* The rows of a table that carry a key, whatever the spelling
RowsOfKey(table, k) == {i \in 1..Len(table) : Lower(table[i].item) = Lower(k)}

\* C13: training is a case-insensitive upsert. Whatever "+train", "+forget"
\* and option-4 replies came before, the price table holds at most one range
\* per key compared in lower case, and a "+train" of a key that has a range
\* replaces that range and adds no row.
C13_CaseInsensitiveUpsert ==
    /\ [](\A k \in KBNames : Cardinality(RowsOfKey(prices, k)) <= 1)
    /\ [][(last'.op = "train" /\ last'.reply = "trained")
          => \A u \in Actors, k \in KBNames, lo \in KBVals, hi \in KBVals, un \in KBUnits :
                MsgTrain(u, k, lo, hi, un)
                => /\ Len(prices') = Len(prices) + (IF RowsOfKey(prices, k) = {} THEN 1 ELSE 0)
                   /\ \A i \in RowsOfKey(prices', k) :
                         prices'[i] = PriceRow(k, lo, hi, un)
                   /\ \A i \in 1..Len(prices) :
                         i \notin RowsOfKey(prices, k) => prices'[i] = prices[i]]_vars

\* A name was trained again under its other spelling, next to a range that an
\* option-4 reply had widened
C13_RetrainedNextToWidened ==
    /\ last.op = "train"
    /\ last.reply = "trained"
    /\ Len(prices) = 2
    /\ \E i \in 1..2 : prices[i].item = "Paper"
    /\ \E i \in 1..2 : prices[i].min < 60 \/ prices[i].max > 80

\* C14: the evaluation of a name at an amount is no-data when the name has
\* no range; else below with difference min - amount when amount < min, above
\* with difference amount - max when amount > max, and within when
\* min <= amount <= max; and the evaluation changes no state.
C14_Evaluate ==
    /\ [](\A k \in KBNames \cup {"lunch"}, a \in EvalAmounts :
            LET c == check_price(prices, k, a) IN
            IF RowsOfKey(prices, k) = {}
            THEN c.status = "no-data"
            ELSE \E i \in RowsOfKey(prices, k) :
                    /\ c.range = prices[i]
                    /\ a < prices[i].min
                       => c.status = "below" /\ c.difference = prices[i].min - a
                    /\ a > prices[i].max
                       => c.status = "above" /\ c.difference = a - prices[i].max
                    /\ (prices[i].min <= a /\ a <= prices[i].max)
                       => c.status = "within")
    /\ [][(last'.op = "price_check" /\ last'.reply # "order_updated")
          => UNCHANGED <<clock, prices, states, orders, ledger, history, budgets, archive, recorded, recurring>>]_vars

\* A name was evaluated while a widened range stood in the table
C14_EvaluatedWidenedRange ==
    /\ last.op = "price_check"
    /\ last.reply = "price_info"
    /\ \E i \in 1..Len(prices) :
          /\ prices[i].min = 50
          /\ check_price(prices, prices[i].item, 50).status = "within"
          /\ check_price(prices, prices[i].item, 49).status = "below"

\* ------------------------------------------------------------------------
\* Properties of the transaction records
\* ------------------------------------------------------------------------
\* C15: transaction ids are unique: no two rows of the transaction sheets
\* and no two open sessions carry the same id.
C15_UniqueIds ==
    /\ \A i, j \in 1..Len(ledger) : ledger[i].id = ledger[j].id => i = j
    /\ \A i, j \in 1..Len(states) :
          (/\ states[i].kind = "sess"
           /\ states[j].kind = "sess"
           /\ states[i].key = states[j].key) => i = j

\* The table without its row at a position
WithoutRow(led, i) ==
    [j \in 1..(Len(led) - 1) |-> IF j < i THEN led[j] ELSE led[j + 1]]

\* C16: a transaction row is removed only after a copy of it has been
\* written to the archive of deleted transactions, also when the write to
\* the archive fails: every step that removes a row adds its copy.
C16_ArchivedBeforeRemoved ==
    [][Len(ledger') < Len(ledger)
       => \E i \in 1..Len(ledger) :
             /\ ledger' = WithoutRow(ledger, i)
             /\ Len(archive') = Len(archive) + 1
             /\ LET copy == archive'[Len(archive')] IN
                /\ copy.id = ledger[i].id
                /\ copy.type = ledger[i].type
                /\ copy.amount = ledger[i].amount
                /\ copy.user = ledger[i].user]_vars

\* C17: an operation that finds nothing leaves the state as it was. A
\* "+forget" of a key without a range, and a deletion by an id that no row
\* carries or that only rows of other users carry, are answered "not found"
\* and change neither the price table nor the transaction sheets nor the
\* archive.
C17_NotFoundChangesNothing ==
    [][/\ (last'.op = "forget" /\ last'.reply # "order_updated")
          => \A u \in Actors, k \in KBNames :
                (MsgForget(u, k) /\ RowsOfKey(prices, k) = {})
                => /\ last'.reply = "not_found"
                   /\ UNCHANGED <<prices, ledger, archive>>
       /\ (last'.op = "delete_id" /\ last'.reply # "order_updated")
          => \A u \in Users, ty \in {"expense", "income"}, n \in IdDraws,
                ok \in BOOLEAN :
                (/\ MsgDeleteById(u, TransactionId(ty, n), ok)
                 /\ ~\E i \in 1..Len(ledger) :
                        /\ ledger[i].id = TransactionId(ty, n)
                        /\ ledger[i].user = u)
                => /\ last'.reply = "not_found"
                   /\ UNCHANGED <<prices, ledger, archive>>]_vars

\* A user's deletion by id was answered "not found" while the sheets held a
\* row of another user and the price table a range
C17_OtherUsersRowKept ==
    /\ last.op = "delete_id"
    /\ last.user = "kofi"
    /\ last.reply = "not_found"
    /\ \E i \in 1..Len(ledger) : ledger[i].user = "ama"
    /\ prices # <<>>

\* C18: "/delete last" deletes the transaction the user appended most
\* recently, among Sales, Expenses and Income. (Stated for sheets whose ids
\* are all different.)
C18_DeletesMostRecent ==
    [][(/\ last'.op = "delete_last"
        /\ last'.reply = "deleted"
        /\ \A i, j \in 1..Len(ledger) : ledger[i].id = ledger[j].id => i = j)
       => \E i \in 1..Len(ledger) :
             /\ ledger[i].user = last'.user
             /\ \A j \in 1..Len(ledger) : ledger[j].user = last'.user => j <= i
             /\ ledger' = WithoutRow(ledger, i)]_vars

\* ------------------------------------------------------------------------
\* Properties of the budgets
\* ------------------------------------------------------------------------
\* C19: whatever "+budget", "+delete_budget" and recordings came before,
\* there is at most one active budget per key and user, the keys compared
\* without regard to case.
C19_OneActiveBudget ==
    \A k \in BudgetKeys, u \in Users :
        Cardinality({i \in 1..Len(budgets) :
                        /\ Lower(budgets[i].key) = Lower(k)
                        /\ budgets[i].user = u
                        /\ budgets[i].status = "active"}) <= 1

\* A budget that had been charged and deleted was set again under the other
\* spelling of its key, next to the budget of another user
C19_SetAgainOtherSpelling ==
    /\ last.op = "budget"
    /\ last.user = "ama"
    /\ recorded > 0
    /\ Len(budgets) = 2
    /\ \E i \in 1..2 :
          /\ budgets[i].key = "#Office"
          /\ budgets[i].user = "ama"
          /\ budgets[i].status = "active"
    /\ \E i \in 1..2 : budgets[i].user = "kofi"

\* C20: between two "+budget" of a budget, and up to its deletion, its spent
\* value never decreases, whatever amounts the recordings carry.
C20_SpentNeverDecreases ==
    [][last'.op \notin {"budget", "delete_budget"}
       => /\ Len(budgets') = Len(budgets)
          /\ \A i \in 1..Len(budgets) : budgets'[i].spent >= budgets[i].spent]_vars

\* The active budgets of a key and a user
ActiveBudgets(rows, key, user) ==
    {i \in 1..Len(rows) : /\ Lower(rows[i].key) = Lower(key)
                          /\ rows[i].user = user
                          /\ rows[i].status = "active"}

\* C21: the charging of a recording adds the amount to the spent value of
\* the user's active budget of the category, recomputes what remains, and
\* returns an alert exactly when the updated spent / amount * 100 is at or
\* above the alert threshold, whether or not the budget was there before.
C21_AlertAtOrAboveThreshold ==
    [][(/\ last'.op = "record"
        /\ last'.reply \in {"recorded", "recorded_with_prompt"}
        /\ ledger'[Len(ledger')].category # "")
       => LET row == ledger'[Len(ledger')]
              hit == ActiveBudgets(budgets, row.category, row.user)
              r == update_budget_spending(budgets, 1, row.category, row.amount, row.user)
          IN  /\ budgets' = r.budgets
              /\ Len(budgets') = Len(budgets)
              /\ \A i \in 1..Len(budgets) :
                    IF i \in hit
                    THEN /\ budgets'[i].spent = budgets[i].spent + row.amount
                         /\ budgets'[i].remaining = budgets[i].amount - budgets'[i].spent
                    ELSE budgets'[i] = budgets[i]
              /\ r.alert <=> \E i \in hit :
                                budgets'[i].spent * 100
                                    >= budgets'[i].alert * budgets'[i].amount]_vars

\* A budget at 200 of 100 was charged again and alerted again; another run
\* reaches exactly 80 of 100
C21_AlertedAgain ==
    /\ last.op = "record"
    /\ Len(ledger) = 2
    /\ ledger[1].amount = 200
    /\ ledger[2].amount = 50
    /\ \E i \in 1..Len(budgets) :
          /\ budgets[i].status = "active"
          /\ budgets[i].spent = 250
          /\ update_budget_spending(budgets, 1, budgets[i].key, 0, budgets[i].user).alert

\* ------------------------------------------------------------------------
\* Properties of the recurring transactions
\* ------------------------------------------------------------------------
\* Whether a position is among the due items of a user today
ReportedDue(i, user) ==
    \E j \in 1..Len(due_items(recurring, user, Day(clock))) :
        due_items(recurring, user, Day(clock))[j] = i

\* C22: an active template of the user is reported due exactly when it was
\* never recorded, or it is daily and today > last, or weekly and
\* today >= last + 7 days, or monthly and today's month or year differs from
\* last's and today's day of the month is >= last's or both are >= 28.
C22_DueRule ==
    \A u \in Users, i \in 1..Len(recurring) :
        (recurring[i].user = u /\ recurring[i].status = "active")
        => LET t == recurring[i]
               today == Day(clock)
           IN  ReportedDue(i, u)
               <=> \/ t.last = Never
                   \/ t.last # Never /\ t.freq = "daily" /\ today > t.last
                   \/ t.last # Never /\ t.freq = "weekly" /\ today >= t.last + 7
                   \/ /\ t.last # Never
                      /\ t.freq = "monthly"
                      /\ \/ MonthOf(today) # MonthOf(t.last)
                         \/ YearOf(today) # YearOf(t.last)
                      /\ \/ DayOfMonth(today) >= DayOfMonth(t.last)
                         \/ DayOfMonth(today) >= 28 /\ DayOfMonth(t.last) >= 28

\* Seven days after its posting a weekly template is due, next to a monthly
\* one of the same posting that is not
C22_WeeklyDueOnSeventhDay ==
    /\ Day(clock) = 96
    /\ \E i, j \in 1..Len(recurring) :
          /\ recurring[i].freq = "weekly"
          /\ recurring[i].last = 89
          /\ ReportedDue(i, recurring[i].user)
          /\ recurring[j].freq = "monthly"
          /\ recurring[j].last = 89
          /\ ~ReportedDue(j, recurring[j].user)

\* The monthly templates last recorded on 31 March, seen in April
MarchTemplatesInApril ==
    {i \in 1..Len(recurring) :
        /\ recurring[i].freq = "monthly"
        /\ recurring[i].status = "active"
        /\ recurring[i].last # Never
        /\ MonthOf(recurring[i].last) = 3
        /\ DayOfMonth(recurring[i].last) = 31
        /\ YearOf(Day(clock)) = YearOf(recurring[i].last)
        /\ MonthOf(Day(clock)) = 4}

\* C23: a monthly template last recorded on day 31 of a month is due once
\* the following month of 30 days starts: it is reported due on the first
\* day of that month and on every later day of it, until it is posted.
C23_DueFromFirstDay ==
    \A i \in MarchTemplatesInApril : ReportedDue(i, recurring[i].user)

\* C23, amended: a monthly template last recorded on day 31 of a month is not
\* due on the days 1 to 27 of the following month of 30 days; it is reported
\* due from day 28 of that month on, until it is posted.
C23_DueFromDay28 ==
    \A i \in MarchTemplatesInApril :
        ReportedDue(i, recurring[i].user) <=> DayOfMonth(Day(clock)) >= 28

\* On 30 April a monthly template posted on 31 March is due
C23_DueOnLastDayOfApril ==
    /\ MonthOf(Day(clock)) = 4
    /\ DayOfMonth(Day(clock)) = 30
    /\ \E i \in MarchTemplatesInApril : ReportedDue(i, recurring[i].user)

\* The user's active templates a "record due" finds due, stated as C22
\* states the rule
DueNow(u) ==
    {i \in 1..Len(recurring) :
        /\ recurring[i].user = u
        /\ recurring[i].status = "active"
        /\ LET t == recurring[i]
               today == Day(clock)
           IN  \/ t.last = Never
               \/ t.last # Never /\ t.freq = "daily" /\ today > t.last
               \/ t.last # Never /\ t.freq = "weekly" /\ today >= t.last + 7
               \/ /\ t.last # Never
                  /\ t.freq = "monthly"
                  /\ \/ MonthOf(today) # MonthOf(t.last)
                     \/ YearOf(today) # YearOf(t.last)
                  /\ \/ DayOfMonth(today) >= DayOfMonth(t.last)
                     \/ DayOfMonth(today) >= 28 /\ DayOfMonth(t.last) >= 28}

C25_AlwaysAReply ==
    last.op # "none" => last.reply \notin {"returned_none", "empty_string"}

\* C26: process_command never raises: every call ends with a reply, whatever
\* the prices recorded before (prices of 0 included).
C26_NeverRaises == last.reply # "raised"

\* C27: the reply to a successful recording carries the id of the row just
\* appended, and carries the price alert with its menu exactly when the call
\* left a correction session of the acting user under that id (stated for
\* the calls whose id is not already the key of a stored entry).
C27_PromptIffSessionOpened ==
    [][(/\ last'.op = "record"
        /\ last'.reply \in {"recorded", "recorded_with_prompt"}
        /\ ~HasKey(states, last'.id))
       => /\ Len(ledger') = Len(ledger) + 1
          /\ last'.id = ledger'[Len(ledger')].id
          /\ (last'.reply = "recorded_with_prompt")
             <=> (\E i \in 1..Len(states') :
                     /\ states'[i].key = last'.id
                     /\ states'[i].kind = "sess"
                     /\ states'[i].user = last'.user)]_vars

\* A recording with an anomaly was answered with the alert and its session
\* is stored
C27_PromptedWithSession ==
    /\ last.op = "record"
    /\ last.reply = "recorded_with_prompt"
    /\ \E i \in 1..Len(states) :
          /\ states[i].key = last.id /\ states[i].kind = "sess"
          /\ states[i].user = last.user

C29_InvalidReplyKeepsSession ==
    [][(/\ last'.op = "bare"
        /\ ~HasValidChoice(last'.text)
        /\ last'.reply # "order_updated") =>
          \A i \in OpenSessionsOf(states, last'.user, clock) :
              /\ HasKey(states', states[i].key)
              /\ \A j \in 1..Len(states[i].ids) :
                    (/\ HasKey(states, states[i].ids[j])
                     /\ clock < Get(states, states[i].ids[j]).expires)
                    => HasKey(states', states[i].ids[j])]_vars

\* C30: a bare numeric reply of a user leaves every session and request of
\* the other users in the store as it was, and is answered as a correction
\* only when that user has an open session; with no open session of the
\* user's own the reply changes neither the store nor the price table.
C30_OwnSessionsOnly ==
    [][last'.op = "bare" =>
          /\ \A i \in 1..Len(states) :
                states[i].user # last'.user =>
                    /\ HasKey(states', states[i].key)
                    /\ Get(states', states[i].key) = states[i]
          /\ last'.reply = "correction" =>
                OpenSessionsOf(states, last'.user, clock) # {}
          /\ OpenSessionsOf(states, last'.user, clock) = {} =>
                /\ states' = states
                /\ prices' = prices]_vars

\* kofi's reply was answered as a correction while ama's session stayed open
C30_OtherSessionKept ==
    /\ last.op = "bare"
    /\ last.user = "kofi"
    /\ last.reply = "correction"
    /\ OpenSessionsOf(states, "ama", clock) # {}

\* ------------------------------------------------------------------------
\* Properties of the widening of ranges
\* ------------------------------------------------------------------------
\* C31: a reply with option 4 never shrinks a range: the range a name has
\* after the reply contains the range it had just before the reply, also
\* when the name was retrained after the session was opened.
C31_WideningNeverShrinks ==
    [][(last'.op = "bare" /\ last'.reply = "correction") =>
          \A it \in Names :
              RangeOf(prices, it) # <<>> =>
                  /\ RangeOf(prices', it) # <<>>
                  /\ RangeOf(prices', it)[1] <= RangeOf(prices, it)[1]
                  /\ RangeOf(prices', it)[2] >= RangeOf(prices, it)[2]]_vars

\* C32: a reply with option 4 changes only the min and max of the rows it
\* widens: the table keeps its rows, every row keeps its unit, and a row
\* whose name no open request of the user is about keeps its range.
C32_WideningKeepsUnit ==
    [][(last'.op = "bare" /\ last'.reply = "correction") =>
          /\ Len(prices') = Len(prices)
          /\ \A i \in 1..Len(prices) :
                /\ prices'[i].unit = prices[i].unit
                /\ (\A j \in 1..Len(states) :
                       (states[j].kind = "req" /\ states[j].user = last'.user)
                       => Lower(states[j].item) # Lower(prices[i].item))
                   => prices'[i] = prices[i]]_vars

\* C33: in every reachable state every stored range has a maximum of at most
\* 10,000,000, the ranges written by option 4 included.
C33_MaxWithinLimit == \A i \in 1..Len(prices) : prices[i].max <= RealismLimit

\* ------------------------------------------------------------------------
\* Properties of failed recordings
\* ------------------------------------------------------------------------
\* C34: a recording whose append to the ledger failed is answered with the
\* failure reply and leaves the ledger, the budgets and the price history as
\* they were, and no entry in the correction store that was not there before.
C34_FailedAppendLeavesNothing ==
    [][(/\ last'.op = "record"
        /\ last'.reply = "failed_save"
        /\ ledger' = ledger) =>
          /\ budgets' = budgets
          /\ history' = history
          /\ \A i \in 1..Len(states') :
                \E j \in 1..Len(states) : states[j] = states'[i]]_vars

\* C35: a recording answered with the failure reply appended no row to the
\* ledger.
C35_FailureReplyMeansNoRow ==
    [][(last'.op = "record" /\ last'.reply = "failed_save") =>
          ledger' = ledger]_vars

\* ------------------------------------------------------------------------
\* Properties of the posting of templates
\* ------------------------------------------------------------------------
\* C36: "record due" sets the date of a template to today exactly when it
\* persisted a transaction for it: the templates the call dated are as many
\* as the rows it appended, and each of them has a row of its type and
\* amount among the appended ones.
C36_DatedOnlyWhenRecorded ==
    [][last'.op = "record_due" =>
          LET dated == {i \in 1..Len(recurring) :
                            recurring'[i].last # recurring[i].last}
          IN  /\ Cardinality(dated) = Len(ledger') - Len(ledger)
              /\ \A i \in dated :
                    \E k \in (Len(ledger) + 1)..Len(ledger') :
                        /\ ledger'[k].type = recurring[i].type
                        /\ ledger'[k].amount = recurring[i].amount]_vars

C38_OnlyMatchingBudgetCharged ==
    [][(/\ last'.op = "record"
        /\ last'.reply \in {"recorded", "recorded_with_prompt"}) =>
          LET row == ledger'[Len(ledger')]
              hit == {i \in 1..Len(budgets) :
                         /\ row.category # ""
                         /\ Lower(budgets[i].key) = Lower(row.category)
                         /\ budgets[i].user = row.user
                         /\ budgets[i].status = "active"}
          IN  /\ Len(budgets') = Len(budgets)
              /\ \A i \in 1..Len(budgets) : i \notin hit => budgets'[i] = budgets[i]
              /\ hit = {} =>
                    ~update_budget_spending(budgets, 1, row.category, row.amount,
                                            row.user).alert]_vars

\* A recording that names paper in #office charged ama's budget of #office
\* next to her budget of paper, kofi's budget of #office and a deleted one
C38_ChargedNextToOthers ==
    /\ last.op = "record"
    /\ ledger[Len(ledger)].category = "#office"
    /\ \E i \in 1..Len(budgets) :
          /\ budgets[i].key = "#office" /\ budgets[i].user = "ama"
          /\ budgets[i].status = "active" /\ budgets[i].spent > 0
    /\ \E i \in 1..Len(budgets) :
          /\ budgets[i].key = "paper" /\ budgets[i].user = "ama"
          /\ budgets[i].status = "active" /\ budgets[i].spent = 0
    /\ \E i \in 1..Len(budgets) :
          /\ budgets[i].key = "#office" /\ budgets[i].user = "kofi"
          /\ budgets[i].spent = 0

====
